---- MODULE Spec2Model ----
(***************************************************************************)
(* harmonize: mirror a source tree into a target tree, transcoding FLAC    *)
(* and copying everything else (src/harmonize/__main__.py).                *)
(*                                                                         *)
(* The model follows one process: async_run enumerates the source tree,    *)
(* submits one sync_file task per source file to an AsyncExecutor, drains  *)
(* as_completed(), then runs Targets.sanitize().  asyncio is a single      *)
(* threaded event loop: a coroutine runs until it awaits, so every action  *)
(* below is one synchronous stretch of code, and tasks only run while the  *)
(* main coroutine is suspended in asyncio.wait (or during the shutdown of  *)
(* asyncio.run).  Synchronous stretches of sync_file are cut into several  *)
(* actions so that the filesystem states an outside observer can see are   *)
(* states of the model; `active` keeps other coroutines from running in    *)
(* between.  The event loop runs its callbacks first in, first out: the    *)
(* first steps of the tasks _fill created run in the order of creation     *)
(* (`ready`), before the main coroutine wakes up and before any task that  *)
(* was suspended after they were created goes on.                          *)
(*                                                                         *)
(* A path is a record [dir, name]: dir is the sequence of directory names  *)
(* below the base directory, name is the file name split at its dots       *)
(* (name.split('.')).  Modification times and modes are abstract numbers.  *)
(***************************************************************************)
EXTENDS Integers, Sequences, FiniteSets, TLC

(* ------------------------------ bounds --------------------------------- *)

\* runs of the program in one behaviour (the second run starts from the
\* target tree the first one left)
MaxRuns == 2

\* largest value of the -n option the model tries
MaxPending == 2

\* largest number of files in the source tree
MaxFiles == 2

(* ------------------------------ paths ---------------------------------- *)

P(d, n) == [dir |-> d, name |-> n]

NoPath == P(<<>>, <<>>)

\* The files that may exist in a source directory without subdirectories.
FlatFiles ==
    { P(<<>>, <<"a", "flac">>),
      P(<<>>, <<"a", "FLAC">>),
      P(<<>>, <<"a", "mp3">>),
      P(<<>>, <<"b", "txt">>) }

\* The files that may exist in a source directory where the name d is a
\* subdirectory at one time and a regular file at another.
TreeFiles ==
    { P(<<>>, <<"a", "flac">>),
      P(<<>>, <<"b", "txt">>),
      P(<<>>, <<"d">>),
      P(<<"d">>, <<"x", "txt">>) }

\* The files that may exist in a source directory where the name a.mp3 is
\* a regular file at one time and a subdirectory at another.
SiblingFiles ==
    { P(<<>>, <<"a", "flac">>),
      P(<<>>, <<"a", "mp3">>),
      P(<<"a.mp3">>, <<"x", "txt">>),
      P(<<>>, <<"b", "txt">>) }

\* The files that may exist below the source directory.
SrcUniverse == FlatFiles \cup TreeFiles \cup SiblingFiles

\* their order under sorted(): pathlib compares the parts as strings, and
\* upper case letters sort before lower case ones
PathRank(p) ==
    CASE p = P(<<>>, <<"a", "FLAC">>) -> 1
      [] p = P(<<>>, <<"a", "flac">>) -> 2
      [] p = P(<<>>, <<"a", "mp3">>)  -> 3
      [] p = P(<<"a.mp3">>, <<"x", "txt">>) -> 4
      [] p = P(<<>>, <<"b", "txt">>)  -> 5
      [] p = P(<<>>, <<"d">>)         -> 6
      [] p = P(<<"d">>, <<"x", "txt">>) -> 7
      [] OTHER -> 0

\* str.lower() on the name parts the model uses
Lower(s) ==
    CASE s = "FLAC" -> "flac"
      [] s = "Flac" -> "flac"
      [] s = "MP3"  -> "mp3"
      [] s = "TXT"  -> "txt"
      [] OTHER -> s

Codecs == {"mp3", "opus"}

\* the patterns --exclude may be given; "*.x" is the glob
Patterns == {"*.txt", "*.flac"}

\* the patterns that match what may be beside a.flac
SiblingPatterns == {"*.txt", "*.mp3"}

\* fnmatch.fnmatch(path, pattern) for the patterns above: '*' matches any
\* string, '/' included, so "*.x" matches every path whose name ends in ".x";
\* on POSIX the case of the letters counts
Fnmatch(p, pat) ==
    /\ Len(p.name) > 1
    /\ \/ pat = "*.txt" /\ p.name[Len(p.name)] = "txt"
       \/ pat = "*.flac" /\ p.name[Len(p.name)] = "flac"
       \/ pat = "*.mp3" /\ p.name[Len(p.name)] = "mp3"

\* pathlib's PurePath.suffix, without its dot: the part after the last dot,
\* unless that dot is the first or the last character of the name
Suffix(name) ==
    IF /\ Len(name) > 1
       /\ name[Len(name)] # ""
       /\ (Len(name) > 2 \/ name[1] # "")
    THEN name[Len(name)]
    ELSE ""

IsFlacSource(p) == Lower(Suffix(p.name)) = "flac"

\* the name build_target_path gives the target (lines 46-49, 55)
TargetName(name, target_codec) ==
    IF Len(name) > 1 /\ Lower(name[Len(name)]) = "flac"
    THEN [name EXCEPT ![Len(name)] = target_codec]
    ELSE name

\* the target path of a source path (lines 57-58): same relative directory
TargetPathOf(p, target_codec) == P(p.dir, TargetName(p.name, target_codec))

TgtUniverse == { TargetPathOf(p, c) : p \in SrcUniverse, c \in Codecs }

\* every directory below a base directory that the universe can hold,
\* the base itself (<<>>) included
Prefixes(d) == { SubSeq(d, 1, n) : n \in 0..Len(d) }

DirUniverse == UNION { Prefixes(p.dir) : p \in SrcUniverse }

\* '.'.join(name): the file name as one string
RECURSIVE Join(_)
Join(name) ==
    IF Len(name) = 1 THEN name[1]
    ELSE Join(SubSeq(name, 1, Len(name) - 1)) \o "." \o name[Len(name)]

\* the path p names one of the directories dirs
OnDir(p, dirs) == Len(p.name) >= 1 /\ (p.dir \o << Join(p.name) >>) \in dirs

\* the path that names directory d, for d other than the base directory
DirPath(d) == P(SubSeq(d, 1, Len(d) - 1), << d[Len(d)] >>)

(* ------------------------------ files ---------------------------------- *)

\* a file as the model sees it: kind is "absent", "empty" (a fresh temporary
\* file), "partial" (an encoder or a copy stopped halfway), "copy" or "enc"
\* (the complete copy or encoding of version ver of source file src)
File(k, s, v, mt, md) == [kind |-> k, src |-> s, ver |-> v, mtime |-> mt, mode |-> md]

Absent == File("absent", NoPath, 0, 0, 0)

\* the mode tempfile.NamedTemporaryFile creates its file with (0600), and
\* the modification time of a file written now: both differ from every
\* mode and time a source file of the model has
TempMode == 600

Now == 99

\* permission bits an outside writer may give a source file: they differ
\* from the ones it had
OtherMode == 755

\* the mode of each source file
SourceMode(p) == IF p.name[Len(p.name)] = "txt" THEN 644 ELSE 640

\* the modification times a source file may start with: a.FLAC is as old
\* as a.flac or newer
InitMtimes(p) == IF p = P(<<>>, <<"a", "FLAC">>) THEN {1, 2} ELSE {1}

\* the modification time of a source file rewritten after run r: later than
\* every time before it
WrittenAfter(r) == 2 + r

\* the modification time of a source file rewritten during run r: later
\* than every time before it, and the same for the files rewritten within
\* one tick of the clock of the file system
WrittenDuring(r) == 10 + r

(* ------------------------------ state ---------------------------------- *)

VARIABLES
    source,       \* the source tree: SrcUniverse -> File
    target,       \* the files of the target tree: TgtUniverse -> File
    tdirs,        \* the directories of the target tree that exist (<<>> is
                  \* target_base itself)
    temp,         \* the temporary file of the task of each source file
    codec,        \* args.codec
    exclude,      \* Targets.exclude
    max_pending,  \* AsyncExecutor._max_pending (args.num_processes)
    driver,       \* the coroutine that drains the executor: "async_run" or "run"
    inloop,       \* whether submit() finds a running event loop (line 231)
    pc,           \* where the driver is
    gpc,          \* where the as_completed() generator is
    pairs,        \* sorted(targets._get_paths()), as the source paths
    nsub,         \* how many of them have been submitted
    paths,        \* Targets._paths
    queued,       \* AsyncExecutor._queued
    pending,      \* AsyncExecutor._pending
    done,         \* the `done` set of as_completed, not yet yielded
    cur,          \* the task whose result the driver holds
    task,         \* each task's position in sync_file and what it snapshotted
    active,       \* the task that is in the middle of a synchronous stretch
    ready,        \* the created tasks whose first step the event loop has
                  \* yet to run, oldest first
    fin,          \* the tasks that have come to the end of sync_file, in the
                  \* order in which they did
    yielded,      \* how often as_completed has yielded each task
    run,          \* number of the current run of the program
    conv,         \* sources with a 'Copying'/'Transcoding' log line this run
    deleted,      \* paths with a 'Deleting' log line this run
    tstart,       \* the files of the target tree when this run started
    dstart,       \* its directories when this run started
    touched,      \* source files rewritten since the previous run ended
    removed,      \* source files removed since the previous run ended
    midrun,       \* for each source file, the last run in which it was
                  \* rewritten while its task was inside sync_file (0: none)
    prev,         \* how the previous run ended: "none", "clean", "failed"
    synced        \* whether every target was up to date when it ended

vars == << source, target, tdirs, temp, codec, exclude, max_pending, driver,
           inloop, pc, gpc, pairs, nsub, paths, queued, pending, done, cur,
           task, active, ready, fin, yielded, run, conv, deleted, tstart, dstart,
           touched, removed, midrun, prev, synced >>

fsvars == << source, target, tdirs, temp >>
cfgvars == << codec, exclude, max_pending, driver, inloop >>
histvars == << run, tstart, dstart, touched, removed, midrun, prev, synced >>

NoStat == [mtime |-> 0, mode |-> 0]

\* a task that does not exist yet
NoTask == [pc |-> "none", lstat |-> NoStat, before |-> Absent, exc |-> "none",
           after |-> NoPath, diag |-> FALSE, late |-> FALSE]

Exists(f) == f.kind # "absent"

SourceFiles == { p \in SrcUniverse : Exists(source[p]) }

\* the positions at which a task is finished (asyncio's Task.done())
Finished == {"done", "failed", "cancelled"}

IsDone(t) == task[t].pc \in Finished

\* the positions at which a task has been created and is not finished
IsRunning(t) == task[t].pc \notin (Finished \cup {"none", "queued"})

\* a source file as the program first finds it
NewSource(p, mt) == File("data", p, 1, mt, SourceMode(p))

\* the files S can be in one tree: none of them is at a path that is a
\* directory above another
Tree(S) == \A p, q \in S : ~OnDir(p, Prefixes(q.dir))

\* the source trees with at most n files of U the program may be started on
InitSources(U, n) ==
    { [p \in SrcUniverse |-> IF p \in S THEN NewSource(p, mt[p]) ELSE Absent] :
        S \in { T \in SUBSET U : Tree(T) /\ Cardinality(T) <= n },
        mt \in { m \in [U -> {1, 2}] : \A p \in U : m[p] \in InitMtimes(p) } }

\* the state when the program starts on an empty target directory
InitCommon(U, n) ==
    /\ source \in InitSources(U, n)
    /\ target = [p \in TgtUniverse |-> Absent]
    /\ tdirs = {}
    /\ temp = [p \in SrcUniverse |-> Absent]
    /\ codec \in Codecs
    /\ max_pending \in (-1)..MaxPending
    /\ gpc = "new"
    /\ nsub = 0
    /\ paths = {}
    /\ queued = <<>>
    /\ pending = {}
    /\ done = {}
    /\ cur = NoPath
    /\ task = [p \in SrcUniverse |-> NoTask]
    /\ active = NoPath
    /\ ready = <<>>
    /\ fin = <<>>
    /\ yielded = [p \in SrcUniverse |-> 0]
    /\ run = 1
    /\ conv = {}
    /\ deleted = {}
    /\ tstart = target
    /\ dstart = tdirs
    /\ touched = {}
    /\ removed = {}
    /\ midrun = [p \in SrcUniverse |-> 0]
    /\ prev = "none"
    /\ synced = FALSE

\* main(): asyncio.run(async_run(args, encoder_options))
Init ==
    /\ InitCommon(FlatFiles, MaxFiles)
    /\ exclude \in SUBSET Patterns
    /\ driver = "async_run"
    /\ inloop = TRUE
    /\ pc = "start"
    /\ pairs = <<>>

(* --------------------------- Targets ----------------------------------- *)

\* a _get_paths that passes on every file
IncludedAll == SourceFiles

\* the files _get_paths passes on: not matched by any exclusion pattern
\* (lines 102-108)
Included == { p \in SourceFiles : \A pat \in exclude : ~Fnmatch(p, pat) }

\* the directory of the source tree that a directory of the target tree
\* mirrors is a directory (line 70); a source directory is one that holds
\* a file of the source tree
SourceIsDir(d) == d = <<>> \/ \E p \in SourceFiles : d \in Prefixes(p.dir)

\* a test that looks for the path among the files _get_paths passes on
SourceExistsEnumerated(q) == q \in Included

\* pathlib's Path.exists() on a path of the source tree (line 50): a
\* regular file or a directory is there
SourceExists(q) == q \in SourceFiles \/ SourceIsDir(q.dir \o << Join(q.name) >>)

\* a build_target_path without the test of line 50
DuplicateNever(p) == FALSE

\* line 50: a FLAC name whose rewritten name exists beside it
Duplicate(p) ==
    /\ Len(p.name) > 1
    /\ Lower(p.name[Len(p.name)]) = "flac"
    /\ SourceExists(P(p.dir, TargetName(p.name, codec)))

\* sorted(): the elements of S by rising PathRank
Sorted(S) ==
    CHOOSE s \in [1..Cardinality(S) -> S] :
        \A i, j \in 1..Cardinality(S) : i < j => PathRank(s[i]) < PathRank(s[j])

\* line 273, sorted(targets._get_paths()): build_target_path on every file
\* that is not excluded.  iterdir() gives the files in no particular order,
\* so when one of them raises, any of the others may have been mapped before.
GetPaths ==
    /\ pc = "start"
    /\ IF \E p \in Included : Duplicate(p)
       THEN /\ \E before \in SUBSET { p \in Included : ~Duplicate(p) } :
                 paths' = { TargetPathOf(p, codec) : p \in before }
            /\ pc' = "raised"
            /\ pairs' = pairs
       ELSE /\ paths' = { TargetPathOf(p, codec) : p \in Included }
            /\ pairs' = Sorted(Included)
            /\ pc' = "submit"
    /\ UNCHANGED << fin, ready, fsvars, cfgvars, histvars, gpc, nsub, queued, pending,
                    done, cur, task, active, yielded, conv, deleted >>

\* the target directories sanitize removes (line 78): those whose source
\* counterpart is not a directory, with everything below
StaleDirs == { d \in tdirs : ~SourceIsDir(d) }

\* the ones os.walk comes to, which get a log line (line 77): what is below
\* a removed directory is not there any more when os.walk goes on
WalkedStaleDirs ==
    { d \in StaleDirs : \A n \in 0..(Len(d) - 1) : SubSeq(d, 1, n) \notin StaleDirs }

\* the files sanitize unlinks (lines 71-75), final targets and leftover
\* temporary files alike, and the files that go with a removed directory
StaleTargets ==
    { p \in TgtUniverse : Exists(target[p]) /\ (p.dir \in StaleDirs \/ p \notin paths) }

\* Targets.sanitize and the last log line (lines 278-280)
Sanitize ==
    /\ pc = "sanitize"
    /\ target' = [p \in TgtUniverse |-> IF p \in StaleTargets THEN Absent ELSE target[p]]
    /\ temp' = [p \in SrcUniverse |-> Absent]
    /\ tdirs' = tdirs \ StaleDirs
    /\ deleted' = { p \in StaleTargets : p.dir \notin StaleDirs }
                    \cup { DirPath(d) : d \in WalkedStaleDirs }
                    \cup { P(<<"tmp">>, t.name) : t \in { u \in SrcUniverse : Exists(temp[u]) } }
    /\ pc' = "complete"
    /\ UNCHANGED << fin, ready, source, cfgvars, histvars, gpc, pairs, nsub, paths, queued,
                    pending, done, cur, task, active, yielded, conv >>

(* --------------------------- AsyncExecutor ----------------------------- *)

Min(a, b) == IF a < b THEN a ELSE b

\* _fill without the count of the tasks already pending
FillSlotsAll(pend, mp) == mp

\* line 248: how many times the loop of _fill may run
FillSlots(pend, mp) == mp - Cardinality(pend)

\* how many tasks _fill starts: it stops when the queue is empty (line 249)
FillCount(q, pend, mp) ==
    IF FillSlots(pend, mp) <= 0 THEN 0 ELSE Min(FillSlots(pend, mp), Len(q))

\* the tasks _fill starts: list.pop() takes them from the end (line 251)
FillStarted(q, pend, mp) ==
    { q[i] : i \in (Len(q) - FillCount(q, pend, mp) + 1)..Len(q) }

\* the same tasks in the order _fill creates them
FillOrder(q, pend, mp) ==
    [i \in 1..FillCount(q, pend, mp) |-> q[Len(q) - i + 1]]

FillQueued(q, pend, mp) == SubSeq(q, 1, Len(q) - FillCount(q, pend, mp))

\* asyncio.create_task on each started task (line 252)
FillTask(tk, started) ==
    [t \in SrcUniverse |-> IF t \in started THEN [tk[t] EXCEPT !.pc = "created"] ELSE tk[t]]

\* AsyncExecutor.submit (lines 228-235) on the next pair of async_run's loop
\* (lines 273-274)
Submit ==
    /\ pc = "submit"
    /\ nsub < Len(pairs)
    /\ LET t == pairs[nsub + 1]
           q == Append(queued, t)
           tk == [task EXCEPT ![t] = [NoTask EXCEPT !.pc = "queued"]]
       IN IF inloop
          THEN /\ queued' = FillQueued(q, pending, max_pending)
               /\ pending' = pending \cup FillStarted(q, pending, max_pending)
               /\ task' = FillTask(tk, FillStarted(q, pending, max_pending))
               /\ ready' = ready \o FillOrder(q, pending, max_pending)
          ELSE /\ queued' = q
               /\ pending' = pending
               /\ task' = tk
               /\ ready' = ready
    /\ nsub' = nsub + 1
    /\ UNCHANGED << fin, fsvars, cfgvars, histvars, pc, gpc, pairs, paths, done, cur,
                    active, yielded, conv, deleted >>

\* the driver reaches `async for result in executor.as_completed()`
StartDrain ==
    /\ pc = "submit"
    /\ nsub = Len(pairs)
    /\ pc' = "drain"
    /\ gpc' = "loop"
    /\ UNCHANGED << fin, ready, fsvars, cfgvars, histvars, pairs, nsub, paths, queued, pending,
                    done, cur, task, active, yielded, conv, deleted >>

\* a loop that only looks at the queue
LoopTestQueued(q, pend) == q # <<>>

\* `while self._queued or self._pending` (line 238)
LoopTest(q, pend) == q # <<>> \/ pend # {}

\* an asyncio.wait that accepts an empty set and waits
WaitRaisesNever(pend) == FALSE

\* asyncio.wait raises ValueError when the set it is given is empty
WaitRaises(pend) == pend = {}

\* as_completed at the top of its loop (lines 238-242): the test of the
\* loop, _fill, and the call of asyncio.wait, which raises ValueError when
\* it is given an empty set; the end of the generator ends the driver's
\* `async for`
AsCompletedLoop ==
    /\ pc = "drain"
    /\ gpc = "loop"
    /\ IF ~LoopTest(queued, pending)
       THEN /\ gpc' = "ended"
            /\ pc' = IF driver = "async_run" THEN "sanitize" ELSE "returned"
            /\ UNCHANGED << queued, pending, task, ready >>
       ELSE /\ queued' = FillQueued(queued, pending, max_pending)
            /\ pending' = pending \cup FillStarted(queued, pending, max_pending)
            /\ task' = FillTask(task, FillStarted(queued, pending, max_pending))
            /\ ready' = ready \o FillOrder(queued, pending, max_pending)
            /\ IF WaitRaises(pending')
               THEN gpc' = "raised" /\ pc' = "raised"
               ELSE gpc' = "waiting" /\ pc' = pc
    /\ UNCHANGED << fin, fsvars, cfgvars, histvars, pairs, nsub, paths, done, cur,
                    active, yielded, conv, deleted >>

\* the set asyncio.wait works on: its own copy of _pending, made when it
\* was called (line 241), without the tasks a submit() has added to
\* _pending since
Waited(pend) == { t \in pend : ~task[t].late }

\* the two sets asyncio.wait returns: the finished tasks of its set and
\* the others of its set
WaitDone(pend) == { t \in Waited(pend) : IsDone(t) }

WaitPending(pend) == Waited(pend) \ WaitDone(pend)

\* asyncio.wait(..., return_when=FIRST_COMPLETED) returns (lines 241-242):
\* done is every task of _pending that has finished by now
WaitReturn ==
    /\ pc = "drain"
    /\ gpc = "waiting"
    /\ active = NoPath
    /\ ready = <<>>
    /\ WaitDone(pending) # {}
    /\ done' = WaitDone(pending)
    /\ pending' = WaitPending(pending)
    /\ gpc' = "yield"
    /\ UNCHANGED << fin, ready, fsvars, cfgvars, histvars, pc, pairs, nsub, paths, queued,
                    cur, task, active, yielded, conv, deleted >>

\* `for result in done: yield result` (lines 244-245): a set is iterated in
\* no particular order
Yield(t) ==
    /\ pc = "drain"
    /\ gpc = "yield"
    /\ t \in done
    /\ done' = done \ {t}
    /\ yielded' = [yielded EXCEPT ![t] = @ + 1]
    /\ cur' = t
    /\ pc' = "result"
    /\ UNCHANGED << fin, ready, fsvars, cfgvars, histvars, gpc, pairs, nsub, paths, queued,
                    pending, task, active, conv, deleted >>

\* a generator that yields one result of `done` and drops the others
ResumeLoop == "loop"

\* where the generator goes on when the driver asks for the next result:
\* the rest of `done` first (lines 244-245), then the loop again
Resume == IF done = {} THEN "loop" ELSE "yield"

\* a loop body that catches the exception of a failed task, as run's does
AsyncRunResultCaught ==
    /\ pc = "result"
    /\ driver = "async_run"
    /\ pc' = "drain"
    /\ gpc' = Resume
    /\ UNCHANGED << fin, ready, fsvars, cfgvars, histvars, pairs, nsub, paths, queued, pending,
                    done, cur, task, active, yielded, conv, deleted >>

\* async_run's loop body, result.result() (line 276): it raises the
\* exception of a failed task, and nothing in async_run catches it
AsyncRunResult ==
    /\ pc = "result"
    /\ driver = "async_run"
    /\ IF task[cur].pc = "failed"
       THEN pc' = "raised" /\ gpc' = gpc
       ELSE pc' = "drain" /\ gpc' = Resume
    /\ UNCHANGED << fin, ready, fsvars, cfgvars, histvars, pairs, nsub, paths, queued, pending,
                    done, cur, task, active, yielded, conv, deleted >>

\* run's loop body (lines 257-262): the exception is caught and printed
RunResult ==
    /\ pc = "result"
    /\ driver = "run"
    /\ pc' = "drain"
    /\ gpc' = Resume
    /\ UNCHANGED << fin, ready, fsvars, cfgvars, histvars, pairs, nsub, paths, queued, pending,
                    done, cur, task, active, yielded, conv, deleted >>

(* --------------------------- asyncio.run ------------------------------- *)

\* the event loop runs tasks while the main coroutine is suspended
LoopRuns == (pc = "drain" /\ gpc = "waiting") \/ pc = "shutdown"

\* asyncio.run after the main coroutine raised (line 314): every task that
\* is not finished is cancelled.  A task that never ran ends at once; one
\* suspended in an await gets CancelledError there when it next runs.
CancelAll ==
    /\ pc = "raised"
    /\ pc' = "shutdown"
    /\ task' = [t \in SrcUniverse |->
                  IF task[t].pc = "created" THEN [task[t] EXCEPT !.pc = "cancelled"]
                  ELSE IF IsRunning(t) THEN [task[t] EXCEPT !.exc = "cancel"]
                  ELSE task[t]]
    /\ ready' = <<>>
    /\ UNCHANGED << fin, fsvars, cfgvars, histvars, gpc, pairs, nsub, paths, queued,
                    pending, done, cur, active, yielded, conv, deleted >>

\* the exit status of the process once it has ended: 0 when async_run
\* returned, 1 when its exception left asyncio.run and main (line 314)
ExitStatus == IF pc = "complete" THEN 0 ELSE 1

\* the cancelled tasks have finished, the generator is closed, the process ends
Exit ==
    /\ pc = "shutdown"
    /\ active = NoPath
    /\ \A t \in SrcUniverse : ~IsRunning(t)
    /\ pc' = "exited"
    /\ gpc' = IF gpc \in {"yield", "waiting"} THEN "closed" ELSE gpc
    /\ UNCHANGED << fin, ready, fsvars, cfgvars, histvars, pairs, nsub, paths, queued, pending,
                    done, cur, task, active, yielded, conv, deleted >>

(* --------------------------- encoders ---------------------------------- *)

\* encoders.lame raises when the exit status is not 0 or stderr is not empty
LameRaises(returncode, stderr) == returncode # 0 \/ stderr

\* encoders.opus raises when the exit status is not 0
OpusRaises(returncode, stderr) == returncode # 0

\* the encoder process of a task that is still in sync_file ended with
\* exit status 0 and wrote to its stderr
Diagnostics(returncode, stderr) == returncode = 0 /\ stderr

\* _CODEC_ENCODERS[args.codec]
EncoderRaises(c, returncode, stderr) ==
    IF c = "mp3" THEN LameRaises(returncode, stderr) ELSE OpusRaises(returncode, stderr)

(* --------------------------- sync_file --------------------------------- *)

TargetOf(t) == TargetPathOf(t, codec)

\* a test that takes a target for up to date when it is not older than
\* the source
InSyncNewer(tfile, source_lstat) == Exists(tfile) /\ tfile.mtime >= source_lstat.mtime

\* line 135: the target exists and has the modification time of the source
InSync(tfile, source_lstat) == Exists(tfile) /\ tfile.mtime = source_lstat.mtime

\* line 135 for any target path: a directory at the path exists too, and
\* `same` says whether its modification time is that of the source
TargetInSync(tpath, source_lstat, same) ==
    IF OnDir(tpath, tdirs) THEN same ELSE InSync(target[tpath], source_lstat)

\* target.parent.mkdir(parents=True, exist_ok=True) (line 138) raises
\* FileExistsError when a regular file is in the place of the directory d
\* or of one above it
MkdirFails(d) ==
    \E n \in 1..Len(d) :
        /\ DirPath(SubSeq(d, 1, n)) \in TgtUniverse
        /\ Exists(target[DirPath(SubSeq(d, 1, n))])

\* the file NamedTemporaryFile creates (line 179)
NewTemp == File("empty", NoPath, 0, Now, TempMode)

Raise(t) == [task[t] EXCEPT !.pc = "raising", !.exc = "error"]

\* sync_file up to the temporary file (lines 133-139): the lstat of the
\* source, the test for an up to date target, mkdir (an exception of it
\* ends the task), TempPath.__enter__
SyncFileStart(t) ==
    /\ LoopRuns
    /\ active = NoPath
    /\ task[t].pc = "created"
    /\ ready # <<>>
    /\ t = Head(ready)
    /\ ready' = Tail(ready)
    /\ \E same \in BOOLEAN :
        LET source_lstat == [mtime |-> source[t].mtime, mode |-> source[t].mode]
            seen == [task[t] EXCEPT !.lstat = source_lstat, !.before = target[TargetOf(t)]]
        IN IF TargetInSync(TargetOf(t), source_lstat, same)
           THEN /\ task' = [task EXCEPT ![t] = [seen EXCEPT !.pc = "done"]]
                /\ fin' = Append(fin, t)
                /\ UNCHANGED << tdirs, temp, active >>
           ELSE IF MkdirFails(TargetOf(t).dir)
           THEN /\ task' = [task EXCEPT ![t] = [seen EXCEPT !.pc = "failed", !.exc = "error"]]
                /\ fin' = Append(fin, t)
                /\ UNCHANGED << tdirs, temp, active >>
           ELSE /\ task' = [task EXCEPT ![t] = [seen EXCEPT !.pc = "temp"]]
                /\ fin' = fin
                /\ tdirs' = tdirs \cup Prefixes(TargetOf(t).dir)
                /\ temp' = [temp EXCEPT ![t] = NewTemp]
                /\ active' = t
    /\ UNCHANGED << source, target, cfgvars, histvars, pc, gpc, pairs, nsub, paths,
                    queued, pending, done, cur, yielded, conv, deleted >>

\* transcode up to its first await (lines 140-141, 210-212): the log line,
\* then the task is suspended while the decoder and the encoder run
TranscodeStart(t) ==
    /\ active = t
    /\ task[t].pc = "temp"
    /\ IsFlacSource(t)
    /\ conv' = conv \cup {t}
    /\ task' = [task EXCEPT ![t].pc = "encoding",
                             ![t].after = IF ready = <<>> THEN NoPath ELSE ready[Len(ready)]]
    /\ active' = NoPath
    /\ UNCHANGED << fin, ready, fsvars, cfgvars, histvars, pc, gpc, pairs, nsub, paths, queued,
                    pending, done, cur, yielded, deleted >>

\* the rest of transcode and copy_audio_metadata (lines 141-142, 212-213):
\* the encoder has exited with returncode and stderr; when it does not
\* raise, the decoder's exit status is checked, then the tags are copied
TranscodeEnd(t) ==
    /\ LoopRuns
    /\ active = NoPath
    /\ task[t].pc = "encoding"
    /\ task[t].exc # "cancel"
    /\ \A i \in 1..Len(ready) : ready[i] # task[t].after
    /\ active' = t
    /\ \E returncode \in {0, 1}, stderr \in BOOLEAN, rest \in {"ok", "decode", "metadata"} :
          IF EncoderRaises(codec, returncode, stderr)
          THEN /\ task' = [task EXCEPT ![t] = [Raise(t) EXCEPT !.diag = Diagnostics(returncode, stderr)]]
               /\ temp' = [temp EXCEPT ![t] = File("partial", t, source[t].ver, Now, TempMode)]
          ELSE IF rest # "ok"
          THEN /\ task' = [task EXCEPT ![t] = [Raise(t) EXCEPT !.diag = Diagnostics(returncode, stderr)]]
               /\ temp' = [temp EXCEPT ![t] = File("partial", t, source[t].ver, Now, TempMode)]
          ELSE /\ task' = [task EXCEPT ![t].pc = "written",
                                        ![t].diag = Diagnostics(returncode, stderr)]
               /\ temp' = [temp EXCEPT ![t] = File("enc", t, source[t].ver, Now, TempMode)]
    /\ UNCHANGED << fin, ready, source, target, tdirs, cfgvars, histvars, pc, gpc, pairs, nsub,
                    paths, queued, pending, done, cur, yielded, conv, deleted >>

\* a cancelled task gets CancelledError at the await it is suspended in
TranscodeCancelled(t) ==
    /\ LoopRuns
    /\ active = NoPath
    /\ task[t].pc = "encoding"
    /\ task[t].exc = "cancel"
    /\ active' = t
    /\ task' = [task EXCEPT ![t].pc = "raising"]
    /\ temp' = [temp EXCEPT ![t] = File("partial", t, source[t].ver, Now, TempMode)]
    /\ UNCHANGED << fin, ready, source, target, tdirs, cfgvars, histvars, pc, gpc, pairs, nsub,
                    paths, queued, pending, done, cur, yielded, conv, deleted >>

\* copy (lines 144, 165-167): shutil.copy writes the content and the
\* permission bits of the source, or stops with an error
Copy(t) ==
    /\ active = t
    /\ task[t].pc = "temp"
    /\ ~IsFlacSource(t)
    /\ conv' = conv \cup {t}
    /\ \E ok \in BOOLEAN :
          IF ok
          THEN /\ task' = [task EXCEPT ![t].pc = "written"]
               /\ temp' = [temp EXCEPT ![t] = File("copy", t, source[t].ver, Now, source[t].mode)]
          ELSE /\ task' = [task EXCEPT ![t] = Raise(t)]
               /\ temp' = [temp EXCEPT ![t] = File("partial", t, source[t].ver, Now, TempMode)]
    /\ UNCHANGED << fin, ready, source, target, tdirs, cfgvars, histvars, pc, gpc, pairs, nsub,
                    paths, queued, pending, done, cur, active, yielded, deleted >>

\* the file after copy_path_attr (lines 150-154): chmod and utime with the
\* values of the lstat taken at the start
WithAttr(f, source_lstat) == [f EXCEPT !.mode = source_lstat.mode, !.mtime = source_lstat.mtime]

\* copy_path_attr on the temporary file (line 145), or an error in it
CopyPathAttr(t) ==
    /\ active = t
    /\ task[t].pc = "written"
    /\ \E ok \in BOOLEAN :
          IF ok
          THEN /\ task' = [task EXCEPT ![t].pc = "attr"]
               /\ temp' = [temp EXCEPT ![t] = WithAttr(temp[t], task[t].lstat)]
          ELSE /\ task' = [task EXCEPT ![t] = Raise(t)]
               /\ temp' = temp
    /\ UNCHANGED << fin, ready, source, target, tdirs, cfgvars, histvars, pc, gpc, pairs, nsub,
                    paths, queued, pending, done, cur, active, yielded, conv, deleted >>

\* what the final path holds after temp_target.rename(target)
Renamed(tfile, tempfile) == tempfile

\* temp_target.rename(target) (line 146): the temporary file replaces
\* whatever file is at the target path; rename raises IsADirectoryError
\* when a directory is there
Rename(t) ==
    /\ active = t
    /\ task[t].pc = "attr"
    /\ IF OnDir(TargetOf(t), tdirs)
       THEN /\ task' = [task EXCEPT ![t] = Raise(t)]
            /\ UNCHANGED << target, temp >>
       ELSE /\ target' = [target EXCEPT ![TargetOf(t)] = Renamed(@, temp[t])]
            /\ temp' = [temp EXCEPT ![t] = Absent]
            /\ task' = [task EXCEPT ![t].pc = "renamed"]
    /\ UNCHANGED << fin, ready, source, tdirs, cfgvars, histvars, pc, gpc, pairs, nsub, paths,
                    queued, pending, done, cur, active, yielded, conv, deleted >>

\* a TempPath that does not unlink its file
TempPathKeep(f) == f

\* what TempPath leaves of its file when the block is left (lines 183-187)
TempPathExit(f) == Absent

\* the end of the `with TempPath` block and of the task
SyncFileEnd(t) ==
    /\ active = t
    /\ task[t].pc \in {"renamed", "raising"}
    /\ temp' = [temp EXCEPT ![t] = TempPathExit(@)]
    /\ task' = [task EXCEPT ![t].pc =
                  IF task[t].pc = "renamed" THEN "done"
                  ELSE IF task[t].exc = "cancel" THEN "cancelled" ELSE "failed",
                             ![t].diag = FALSE]
    /\ active' = NoPath
    /\ fin' = Append(fin, t)
    /\ UNCHANGED << ready, source, target, tdirs, cfgvars, histvars, pc, gpc, pairs, nsub,
                    paths, queued, pending, done, cur, yielded, conv, deleted >>

(* --------------------------- runs -------------------------------------- *)

\* an outside writer gives source file p new content and another
\* modification time
Rewritten(f, mt) == [f EXCEPT !.ver = @ + 1, !.mtime = mt]

\* The process has ended and the program is started again on the same two
\* directories with the exclusion patterns exc, the source tree now being
\* src: tch are the files rewritten and rem the files removed in between.
RestartWith(src, tch, rem, exc) ==
    /\ pc \in {"complete", "exited"}
    /\ driver = "async_run"
    /\ run < MaxRuns
    /\ source' = src
    /\ touched' = tch
    /\ removed' = rem
    /\ midrun' = midrun
    /\ synced' = \A p \in Included : InSync(target[TargetOf(p)], source[p])
    /\ run' = run + 1
    /\ prev' = IF pc = "complete" THEN "clean" ELSE "failed"
    /\ tstart' = target
    /\ dstart' = tdirs
    /\ pc' = "start"
    /\ gpc' = "new"
    /\ pairs' = <<>>
    /\ nsub' = 0
    /\ paths' = {}
    /\ queued' = <<>>
    /\ pending' = {}
    /\ done' = {}
    /\ cur' = NoPath
    /\ task' = [p \in SrcUniverse |-> NoTask]
    /\ ready' = <<>>
    /\ fin' = <<>>
    /\ yielded' = [p \in SrcUniverse |-> 0]
    /\ conv' = {}
    /\ deleted' = {}
    /\ exclude' = exc
    /\ UNCHANGED << target, tdirs, temp, codec, max_pending, driver, inloop, active >>

\* the program is started again with the options it had
Restart(src, tch, rem) == RestartWith(src, tch, rem, exclude)

\* the next run, after at most one source file has been rewritten
NewRun ==
    \/ Restart(source, {}, {})
    \/ \E p \in SourceFiles :
          Restart([source EXCEPT ![p] = Rewritten(@, WrittenAfter(run))], {p}, {})

\* the next run, after one source file has been removed, or replaced by a
\* directory of its name with a file in it, or a directory with its file
\* replaced by a regular file of its name
NewRunTree ==
    \/ \E p \in SourceFiles :
          Restart([source EXCEPT ![p] = Absent], {}, {p})
    \/ \E p \in SourceFiles, q \in TreeFiles \ SourceFiles :
          /\ ~Tree({p, q})
          /\ Tree((SourceFiles \ {p}) \cup {q})
          /\ Restart([source EXCEPT ![p] = Absent,
                                    ![q] = NewSource(q, WrittenAfter(run))], {}, {p})

TaskStep(t) ==
    \/ SyncFileStart(t)
    \/ TranscodeStart(t)
    \/ TranscodeEnd(t)
    \/ TranscodeCancelled(t)
    \/ Copy(t)
    \/ CopyPathAttr(t)
    \/ Rename(t)
    \/ SyncFileEnd(t)

Next ==
    \/ GetPaths
    \/ Submit
    \/ StartDrain
    \/ AsCompletedLoop
    \/ WaitReturn
    \/ \E t \in SrcUniverse : Yield(t)
    \/ AsyncRunResult
    \/ Sanitize
    \/ CancelAll
    \/ Exit
    \/ \E t \in SrcUniverse : TaskStep(t)
    \/ NewRun

Spec == Init /\ [][Next]_vars

(* --------------------------- a changing source tree -------------------- *)

\* main() on a source tree that may hold a subdirectory
InitTree ==
    /\ InitCommon(TreeFiles, MaxFiles)
    /\ exclude \in SUBSET Patterns
    /\ driver = "async_run"
    /\ inloop = TRUE
    /\ pc = "start"
    /\ pairs = <<>>

NextTree ==
    \/ GetPaths
    \/ Submit
    \/ StartDrain
    \/ AsCompletedLoop
    \/ WaitReturn
    \/ \E t \in SrcUniverse : Yield(t)
    \/ AsyncRunResult
    \/ Sanitize
    \/ CancelAll
    \/ Exit
    \/ \E t \in SrcUniverse : TaskStep(t)
    \/ NewRun
    \/ NewRunTree

SpecTree == InitTree /\ [][NextTree]_vars

(* --------------------------- one run with a longer queue --------------- *)

\* main() on a source tree with one file more and no exclusion pattern
InitQueue ==
    /\ InitCommon(FlatFiles, MaxFiles + 1)
    /\ exclude = {}
    /\ driver = "async_run"
    /\ inloop = TRUE
    /\ pc = "start"
    /\ pairs = <<>>

\* the steps of one run of the program
NextQueue ==
    \/ GetPaths
    \/ Submit
    \/ StartDrain
    \/ AsCompletedLoop
    \/ WaitReturn
    \/ \E t \in SrcUniverse : Yield(t)
    \/ AsyncRunResult
    \/ Sanitize
    \/ CancelAll
    \/ Exit
    \/ \E t \in SrcUniverse : TaskStep(t)

SpecQueue == InitQueue /\ [][NextQueue]_vars

(* --------------------------- the executor under run() ------------------ *)

\* run(executor) (lines 255-262) drains an executor and goes on after a
\* failed result.  The executor is handed over with one sync_file task per
\* source file still to be submitted in sorted order, from inside a running
\* event loop or from outside of one.
InitRun ==
    /\ InitCommon(FlatFiles, MaxFiles)
    /\ exclude = {}
    /\ driver = "run"
    /\ inloop \in BOOLEAN
    /\ pc = "submit"
    /\ pairs = Sorted({ p \in SrcUniverse : Exists(source[p]) })

RunTaskStep(t) ==
    \/ SyncFileStart(t)
    \/ TranscodeStart(t)
    \/ TranscodeEnd(t)
    \/ Copy(t)
    \/ CopyPathAttr(t)
    \/ Rename(t)
    \/ SyncFileEnd(t)

NextRun ==
    \/ Submit
    \/ StartDrain
    \/ AsCompletedLoop
    \/ WaitReturn
    \/ \E t \in SrcUniverse : Yield(t)
    \/ RunResult
    \/ CancelAll
    \/ Exit
    \/ \E t \in SrcUniverse : RunTaskStep(t)

SpecRun == InitRun /\ [][NextRun]_vars

\* The event loop runs every callback that is ready, and the decoder and
\* encoder processes end: whatever can happen next does happen.
FairSpecRun == SpecRun /\ WF_vars(NextRun)

(* --------------------------- what is beside a FLAC file ---------------- *)

\* main() on a source tree where a.mp3, a file or a directory, may be
\* beside a.flac, with patterns that exclude it or what it holds
InitSibling ==
    /\ InitCommon(SiblingFiles, MaxFiles)
    /\ exclude \in SUBSET SiblingPatterns
    /\ driver = "async_run"
    /\ inloop = TRUE
    /\ pc = "start"
    /\ pairs = <<>>

SpecSibling == InitSibling /\ [][NextQueue]_vars

(* --------------------------- more exclusion patterns ------------------- *)

\* the next run, on the same source tree, with one or more --exclude
\* options added
NewRunExclude ==
    \E exc \in SUBSET Patterns :
        /\ exclude \subseteq exc
        /\ exc # exclude
        /\ RestartWith(source, {}, {}, exc)

NextExclude ==
    \/ GetPaths
    \/ Submit
    \/ StartDrain
    \/ AsCompletedLoop
    \/ WaitReturn
    \/ \E t \in SrcUniverse : Yield(t)
    \/ AsyncRunResult
    \/ Sanitize
    \/ CancelAll
    \/ Exit
    \/ \E t \in SrcUniverse : TaskStep(t)
    \/ NewRunExclude

SpecExclude == Init /\ [][NextExclude]_vars

(* --------------------------- a deletion that fails --------------------- *)

\* Targets.sanitize (lines 62-78) when deleting the stale file bad of the
\* base directory raises an error other than FileNotFoundError, such as
\* PermissionError: _delete_if_exists (lines 86-92) catches only
\* FileNotFoundError, so the error leaves sanitize and async_run.  The
\* files of the base directory come in no particular order, so any of its
\* other stale files may have been deleted before; os.walk has not come to
\* a subdirectory yet.
SanitizeDenied ==
    /\ pc = "sanitize"
    /\ \E bad \in { p \in StaleTargets : p.dir = <<>> } :
       \E before \in SUBSET { p \in StaleTargets \ {bad} : p.dir = <<>> } :
          /\ target' = [p \in TgtUniverse |-> IF p \in before THEN Absent ELSE target[p]]
          /\ deleted' = before \cup {bad}
    /\ pc' = "raised"
    /\ UNCHANGED << fin, ready, source, tdirs, temp, cfgvars, histvars, gpc, pairs, nsub,
                    paths, queued, pending, done, cur, task, active, yielded, conv >>

NextDenied ==
    \/ GetPaths
    \/ Submit
    \/ StartDrain
    \/ AsCompletedLoop
    \/ WaitReturn
    \/ \E t \in SrcUniverse : Yield(t)
    \/ AsyncRunResult
    \/ Sanitize
    \/ SanitizeDenied
    \/ CancelAll
    \/ Exit
    \/ \E t \in SrcUniverse : TaskStep(t)
    \/ NewRunExclude

SpecDenied == Init /\ [][NextDenied]_vars

(* --------------------------- a source file changes during a run ------- *)

\* An outside writer rewrites source file p, once in a run, while the task
\* of p is inside sync_file, after its lstat (line 133) and before or after
\* its content is read: the file gets new content, a later modification
\* time and other permission bits.
Touch(p) ==
    /\ task[p].pc \in {"temp", "encoding", "written"}
    /\ midrun[p] # run
    /\ source' = [source EXCEPT ![p] = [Rewritten(@, WrittenDuring(run)) EXCEPT !.mode = OtherMode]]
    /\ midrun' = [midrun EXCEPT ![p] = run]
    /\ UNCHANGED << target, tdirs, temp, cfgvars, run, tstart, dstart, touched, removed,
                    prev, synced, pc, gpc, pairs, nsub, paths, queued, pending, done,
                    cur, task, active, ready, fin, yielded, conv, deleted >>

\* main() on a source tree whose files may be rewritten during a run
InitTouch ==
    /\ InitCommon(FlatFiles, MaxFiles)
    /\ exclude = {}
    /\ driver = "async_run"
    /\ inloop = TRUE
    /\ pc = "start"
    /\ pairs = <<>>

NextTouch ==
    \/ GetPaths
    \/ Submit
    \/ StartDrain
    \/ AsCompletedLoop
    \/ WaitReturn
    \/ \E t \in SrcUniverse : Yield(t)
    \/ AsyncRunResult
    \/ Sanitize
    \/ CancelAll
    \/ Exit
    \/ \E t \in SrcUniverse : TaskStep(t)
    \/ NewRun
    \/ \E p \in SrcUniverse : Touch(p)

SpecTouch == InitTouch /\ [][NextTouch]_vars

(* --------------------------- submit during the drain ------------------- *)

\* the tasks of started that a submit() created while as_completed was
\* suspended in asyncio.wait
FillLate(tk, started) ==
    [t \in SrcUniverse |-> IF t \in started THEN [tk[t] EXCEPT !.late = TRUE] ELSE tk[t]]

\* AsyncExecutor.submit (lines 228-235) called by another coroutine while
\* as_completed is suspended in asyncio.wait (line 241): _fill adds the
\* tasks it starts to the set object _pending, of which asyncio.wait holds
\* a copy
LateSubmit ==
    /\ pc = "drain"
    /\ gpc = "waiting"
    /\ active = NoPath
    /\ nsub < Len(pairs)
    /\ LET t == pairs[nsub + 1]
           q == Append(queued, t)
           tk == [task EXCEPT ![t] = [NoTask EXCEPT !.pc = "queued"]]
           started == FillStarted(q, pending, max_pending)
       IN /\ queued' = FillQueued(q, pending, max_pending)
          /\ pending' = pending \cup started
          /\ task' = FillLate(FillTask(tk, started), started)
          /\ ready' = ready \o FillOrder(q, pending, max_pending)
    /\ nsub' = nsub + 1
    /\ UNCHANGED << fin, fsvars, cfgvars, histvars, pc, gpc, pairs, paths, done, cur,
                    active, yielded, conv, deleted >>

\* the consumer starts to drain the executor while another coroutine still
\* has tasks to submit
StartDrainEarly ==
    /\ pc = "submit"
    /\ nsub < Len(pairs)
    /\ pc' = "drain"
    /\ gpc' = "loop"
    /\ UNCHANGED << fin, ready, fsvars, cfgvars, histvars, pairs, nsub, paths, queued, pending,
                    done, cur, task, active, yielded, conv, deleted >>

\* run(executor) on an executor that is handed the sync_file tasks of up to
\* MaxFiles + 2 source files, some before the drain starts and the others
\* during it
InitLate ==
    /\ InitCommon(FlatFiles, MaxFiles + 2)
    /\ exclude = {}
    /\ driver = "run"
    /\ inloop = TRUE
    /\ pc = "submit"
    /\ pairs = Sorted({ p \in SrcUniverse : Exists(source[p]) })

NextLate ==
    \/ Submit
    \/ StartDrain
    \/ StartDrainEarly
    \/ LateSubmit
    \/ AsCompletedLoop
    \/ WaitReturn
    \/ \E t \in SrcUniverse : Yield(t)
    \/ RunResult
    \/ CancelAll
    \/ Exit
    \/ \E t \in SrcUniverse : RunTaskStep(t)

SpecLate == InitLate /\ [][NextLate]_vars

(* ======================= the claims ==================================== *)

\* the tasks that have been started and have not finished
RunningTasks == { t \in SrcUniverse : IsRunning(t) }

\* the tasks handed to submit() so far
Submitted == { pairs[i] : i \in 1..nsub }

\* the driver has been given the result of a failed task
FailedResult == \E f \in SrcUniverse : yielded[f] > 0 /\ task[f].pc = "failed"

\* the process has ended
Ended == pc \in {"complete", "exited"}

\* C1: with max_pending = k >= 1, at most k tasks are started and not
\* finished, in every state.
C1_BoundedConcurrency ==
    max_pending >= 1 => Cardinality(RunningTasks) <= max_pending

\* more tasks than slots: the slots are all taken and a task waits
C1_Witness ==
    /\ max_pending >= 1
    /\ Len(pairs) > max_pending
    /\ nsub = Len(pairs)
    /\ Cardinality(RunningTasks) = max_pending
    /\ queued # <<>>
    /\ gpc = "waiting"

\* C2: with every task submitted before the drain and max_pending >= 1,
\* as_completed ends; no task is ever yielded twice; and when the generator
\* ends, the queue and the pending set are empty and every submitted task,
\* failed or not, has been yielded once.
C2_ExactlyOnce ==
    /\ [](\A t \in SrcUniverse : yielded[t] <= 1)
    /\ [](gpc = "ended" =>
            /\ queued = <<>>
            /\ pending = {}
            /\ \A t \in Submitted : yielded[t] = 1 /\ IsDone(t))
    /\ (max_pending >= 1 => <>(gpc = "ended" /\ nsub = Len(pairs)))

\* the generator has ended after a task failed and another one had to wait
\* in the queue
C2_Witness ==
    /\ gpc = "ended"
    /\ max_pending >= 1
    /\ Len(pairs) > max_pending
    /\ \E t \in Submitted : task[t].pc = "failed" /\ yielded[t] = 1
    /\ \E t \in Submitted : task[t].pc = "done" /\ yielded[t] = 1

\* C3: once the driver has been given a failed result, no other task is
\* cancelled, and when the process ends every submitted task has been
\* started and has run to its end.
C3_FailureDoesNotStopRun ==
    FailedResult =>
        /\ \A t \in SrcUniverse : task[t].pc # "cancelled"
        /\ Ended => \A t \in Submitted : task[t].pc \in {"done", "failed"}

\* C4: in a run whose enumeration succeeded and whose submitted tasks have
\* all completed, with or without a failure, sanitize has run by the time
\* the process ends.
C4_SanitizeAfterEveryRun ==
    ( /\ Ended
      /\ gpc # "new"
      /\ \A t \in Submitted : task[t].pc \in {"done", "failed"} )
    => pc = "complete"

\* C5: when sanitize starts, and after it, no task is queued or running
\* and no temporary file exists.
C5_SanitizeAfterScheduler ==
    pc \in {"sanitize", "complete"} =>
        /\ queued = <<>>
        /\ pending = {}
        /\ RunningTasks = {}
        /\ active = NoPath
        /\ \A t \in SrcUniverse : task[t].pc # "queued" /\ ~Exists(temp[t])

\* sanitize is about to start after two tasks that each wrote a file
C5_Witness ==
    /\ pc = "sanitize"
    /\ Len(pairs) = 2
    /\ \A t \in Submitted : task[t].pc = "done" /\ t \in conv

\* the positions of a task inside the `with TempPath` block of sync_file
InBlock == {"temp", "encoding", "written", "attr", "renamed", "raising"}

\* the file a task is to put at its target path: the complete copy or
\* encoding of its source, with the mode and the modification time of the
\* lstat taken at the start
NewFile(t) ==
    File(IF IsFlacSource(t) THEN "enc" ELSE "copy", t, source[t].ver,
         task[t].lstat.mtime, task[t].lstat.mode)

\* C6: in a run on an unchanged source tree that follows a run in which
\* every task succeeded, nothing is copied or transcoded, no temporary file
\* is made, sanitize deletes nothing and the target files stay as they were.
C6_Idempotence ==
    (run >= 2 /\ prev = "clean" /\ touched = {}) =>
        /\ conv = {}
        /\ deleted = {}
        /\ target = tstart
        /\ \A t \in SrcUniverse : ~Exists(temp[t])

\* C7: in a run that starts from a synced target tree after exactly one
\* source file was rewritten, no other target changes and no other source
\* is converted; when the run completes, that file has been converted and
\* its target holds the new content with the new modification time.
C7_Convergence ==
    \A p \in Included :
        (run >= 2 /\ synced /\ touched = {p}) =>
            /\ \A q \in TgtUniverse \ {TargetOf(p)} : target[q] = tstart[q]
            /\ conv \subseteq {p}
            /\ pc = "complete" =>
                  /\ conv = {p}
                  /\ target[TargetOf(p)] = NewFile(p)

\* C8: while a task is inside sync_file, its target path holds what it
\* held when the task started or the complete new file with the
\* snapshotted mode and modification time; and it still holds what it held
\* before when a step before the rename has failed.
C8_AtomicCommit ==
    \A t \in SrcUniverse :
        task[t].pc \in InBlock =>
            /\ target[TargetOf(t)] \in {task[t].before, NewFile(t)}
            /\ task[t].pc = "raising" => target[TargetOf(t)] = task[t].before

\* C9: a task that is not inside its TempPath block has no temporary file,
\* whichever way it left the block, and none is left when the process has
\* ended.
C9_TempReleased ==
    /\ \A t \in SrcUniverse : task[t].pc \notin InBlock => ~Exists(temp[t])
    /\ Ended => \A t \in SrcUniverse : ~Exists(temp[t])

\* a process has ended in which one task was renamed into place, one
\* failed and one was cancelled in the middle of its transcoding
C9_Witness ==
    /\ pc = "exited"
    /\ \E t \in SrcUniverse : task[t].pc = "failed" /\ t \in conv
    /\ \E t \in SrcUniverse : task[t].pc = "cancelled" /\ t \in conv

\* C10: the target paths handed to the scheduler are all different.
C10_UniqueTargets ==
    \A i, j \in 1..Len(pairs) : i # j => TargetOf(pairs[i]) # TargetOf(pairs[j])

\* a source file with a FLAC name and a sibling whose name is that name with
\* the codec in place of the extension
HasSibling(p) ==
    /\ Len(p.name) > 1
    /\ Lower(p.name[Len(p.name)]) = "flac"
    /\ \E q \in SourceFiles :
          q.dir = p.dir /\ q.name = [p.name EXCEPT ![Len(p.name)] = codec]

\* what a run that failed in its enumeration has done: no task was made,
\* nothing was converted or deleted, the target tree is as it was, and the
\* process does not end with 'Processing complete'
NothingDone ==
    /\ pc \in {"raised", "shutdown", "exited"}
    /\ \A t \in SrcUniverse : task[t].pc = "none"
    /\ nsub = 0
    /\ conv = {}
    /\ deleted = {}
    /\ target = tstart
    /\ tdirs = dstart
    /\ \A t \in SrcUniverse : ~Exists(temp[t])

\* C11 as stated: in a run on a source tree that holds X.flac and a sibling
\* X.<codec>, the enumeration fails and nothing is done.
C11_DuplicateFatalAny ==
    ((\E p \in SourceFiles : HasSibling(p)) /\ pc # "start") => NothingDone

\* C11, amended: in a run on a source tree that holds an X.flac that no
\* exclusion pattern matches and a sibling X.<codec>, the enumeration fails
\* and nothing is done.
C11_DuplicateFatal ==
    ((\E p \in Included : HasSibling(p)) /\ pc # "start") => NothingDone

\* such a process has ended, and the sibling had been mapped before the
\* FLAC file was
C11_Witness ==
    /\ pc = "exited"
    /\ \E p \in Included : HasSibling(p)
    /\ paths # {}

\* the regular files under the target root
TargetFiles == { p \in TgtUniverse : Exists(target[p]) }

\* C12: when a run in which every task succeeded has ended, the regular
\* files under the target root are exactly the expected target paths.
C12_MirrorFiles ==
    pc = "complete" => TargetFiles = paths

\* C13: when a run has ended, every directory that was under the target
\* root when it started and whose source counterpart is not a directory is
\* gone, with the files below it.
C13_DirectoryPruned ==
    Ended =>
        \A d \in dstart :
            ~SourceIsDir(d) =>
                /\ d \notin tdirs
                /\ \A p \in TgtUniverse : d \in Prefixes(p.dir) => ~Exists(target[p])

\* C14: of two tasks, the one that finished first is yielded first: a task
\* has not been yielded while one that finished before it has not.
C14_CompletionOrder ==
    \A i, j \in 1..Len(fin) :
        (i < j /\ yielded[fin[j]] > 0) => yielded[fin[i]] > 0

\* C15: the first step of sync_file returns, with the filesystem as it was
\* and nothing logged, when the target file exists with exactly the
\* modification time of the source, and goes on to its temporary file
\* otherwise; and a task is at or past its copy or transcoding only after
\* the log line of one.
C15_StalenessDecision ==
    /\ [][\A t \in SrcUniverse :
            (task[t].pc = "created" /\ task'[t].pc \notin {"created", "cancelled", "none"}) =>
                IF /\ Exists(target[TargetOf(t)])
                   /\ target[TargetOf(t)].mtime = source[t].mtime
                THEN /\ task'[t].pc = "done"
                     /\ UNCHANGED << fsvars, conv >>
                ELSE /\ task'[t].pc = "temp"
                     /\ Exists(temp'[t])]_vars
    /\ [](\A t \in SrcUniverse :
            /\ task[t].pc \in (InBlock \ {"temp"}) => t \in conv
            /\ t \in conv => task[t].pc \in (InBlock \cup Finished) \ {"temp"})

\* a task goes on because its target is newer than its source
C15_Witness ==
    \E t \in SrcUniverse :
        /\ task[t].pc = "encoding"
        /\ Exists(task[t].before)
        /\ task[t].before.mtime > task[t].lstat.mtime

\* C16: a task whose encoder exited with status 0 having written
\* diagnostics fails: it leaves sync_file with the exception of the encode
\* step, and its target is not produced.
C16_DiagnosticsFail ==
    \A t \in SrcUniverse : task[t].diag => task[t].pc = "raising"

Enumerated == pc \notin {"start"} /\ ~(\E p \in Included : HasSibling(p))

\* C18: a 'Copying' or 'Transcoding' event occurs only after the
\* enumeration has ended and its N files have been made N tasks; the first
\* run into an empty target, with room for a task to run, has, when it
\* ends, produced such an event for every enumerated file; and after
\* 'Processing complete' no task is left to produce one.
C18_PhaseOrdering ==
    /\ conv # {} =>
          /\ Enumerated
          /\ nsub = Len(pairs)
          /\ Len(pairs) = Cardinality(Included)
    /\ (Ended /\ Enumerated /\ run = 1 /\ max_pending >= 1) => conv = Included
    /\ pc = "complete" => \A t \in Included : task[t].pc = "done"

\* C19: while the consumer holds a result, no slot is free with a task in
\* the queue: the next queued task was started before the result was
\* yielded.
C19_RefillBeforeYield ==
    (pc = "result" /\ max_pending >= 1 /\ queued # <<>>) =>
        Cardinality(pending) >= max_pending

\* C20: a task is not started while a task submitted before it waits in
\* the queue.
C20_QueueOrder ==
    \A i, j \in 1..nsub :
        (i < j /\ task[pairs[i]].pc = "queued") => task[pairs[j]].pc = "queued"

\* C21: with tasks submitted by another coroutine while as_completed is
\* suspended in asyncio.wait, no task is yielded twice, every submitted task
\* has been yielded once when as_completed ends, and with max_pending >= 1
\* at most max_pending tasks are started and not finished.
C21_LateSubmitTracked ==
    /\ \A t \in SrcUniverse : yielded[t] <= 1
    /\ gpc = "ended" => \A t \in Submitted : yielded[t] = 1
    /\ max_pending >= 1 => Cardinality(RunningTasks) <= max_pending

\* C22: the file a task renames into place has the modification time and
\* the mode of the lstat taken before the conversion, which is not the
\* time of a source rewritten during the task; the next run starts with
\* that target stale, and when its task for the file has succeeded, it has
\* not skipped the file but converted it again.
C22_SourceSnapshot ==
    \A p \in SrcUniverse :
        /\ task[p].pc = "renamed" =>
              /\ target[TargetOf(p)].mtime = task[p].lstat.mtime
              /\ target[TargetOf(p)].mode = task[p].lstat.mode
              /\ midrun[p] = run => target[TargetOf(p)].mtime # source[p].mtime
        /\ (run >= 2 /\ midrun[p] = run - 1 /\ Exists(source[p])) =>
              /\ pc = "start" => ~InSync(target[TargetOf(p)], source[p])
              /\ task[p].pc = "done" => p \in conv

\* C23: once the scheduler is exhausted, sanitize runs to its end whatever
\* error a deletion raises: the process goes on to 'Processing complete',
\* and every file of the target tree that is not an expected path has been
\* processed by then.
C23_DeletionSwallowed ==
    gpc = "ended" =>
        /\ pc \in {"sanitize", "complete"}
        /\ pc = "complete" => \A p \in TargetFiles : p \in paths \/ p \in deleted

\* a source file that at least one exclusion pattern matches
Matched(p) == Exists(source[p]) /\ \E pat \in exclude : Fnmatch(p, pat)

\* the source files that no exclusion pattern matches
Unmatched == { p \in SrcUniverse : Exists(source[p]) /\ ~Matched(p) }

\* in a run whose enumeration did not fail, every file that no pattern
\* matches has been made one task by the time the drain starts, and a file
\* that a pattern matches is never made a task
OneTaskEach ==
    Enumerated =>
        /\ \A p \in SrcUniverse : Matched(p) => task[p].pc = "none"
        /\ pc \notin {"start", "submit"} =>
              /\ Len(pairs) = Cardinality(Unmatched)
              /\ \A p \in Unmatched :
                    /\ task[p].pc # "none"
                    /\ Cardinality({ i \in 1..Len(pairs) : pairs[i] = p }) = 1

\* C24 as stated: a matched file yields no task and every other file
\* exactly one; the mapped path of a matched file is not in the expected
\* set, and no file is at that path when sanitize has run.
C24_ExclusionAny ==
    /\ OneTaskEach
    /\ Enumerated =>
          \A p \in SrcUniverse : Matched(p) =>
              /\ TargetOf(p) \notin paths
              /\ pc = "complete" => ~Exists(target[TargetOf(p)])

\* C24, amended: a matched file yields no task and every other file
\* exactly one; the expected set is the set of the mapped paths of the
\* files that no pattern matches, so that the mapped path of a matched file
\* is not in it, and no file is at that path when sanitize has run, unless
\* a file that no pattern matches is mapped to the same path.
C24_Exclusion ==
    /\ OneTaskEach
    /\ Enumerated =>
          /\ paths = { TargetOf(q) : q \in Unmatched }
          /\ \A p \in SrcUniverse :
                (Matched(p) /\ \A q \in Unmatched : TargetOf(q) # TargetOf(p)) =>
                    /\ TargetOf(p) \notin paths
                    /\ pc = "complete" => ~Exists(target[TargetOf(p)])

\* a run has ended in which sanitize deleted the target an earlier run
\* made of a file that is now excluded, and kept another target
C24_Witness ==
    /\ pc = "complete"
    /\ run >= 2
    /\ \E p \in SrcUniverse :
          /\ Matched(p)
          /\ tstart[TargetOf(p)].src = p
          /\ ~Exists(target[TargetOf(p)])
          /\ TargetOf(p) \in deleted
    /\ \E q \in Unmatched : Exists(target[TargetOf(q)])

\* C25: for every max_pending, 0 and negative values included,
\* as_completed is never suspended in asyncio.wait with an empty set of
\* tasks, and it comes to an end: with max_pending >= 1 it ends after it
\* has yielded every submitted task once, and with max_pending <= 0 it
\* ends at once, without having started a task, by the ValueError of
\* asyncio.wait when a task is queued and by leaving its loop when none is.
C25_DrainTerminates ==
    /\ [](gpc = "waiting" => pending # {})
    /\ <>(gpc \in {"ended", "raised"})
    /\ [](gpc = "ended" => \A t \in Submitted : yielded[t] = 1)
    /\ [](gpc = "raised" =>
            /\ max_pending <= 0
            /\ queued # <<>>
            /\ \A t \in SrcUniverse : task[t].pc \in {"none", "queued"})
    /\ []((max_pending >= 1 /\ gpc \in {"ended", "raised"}) => gpc = "ended")

\* the drain of a queue of two tasks has ended with max_pending = 0
C25_Witness ==
    /\ gpc = "raised"
    /\ max_pending = 0
    /\ Len(queued) = 2
    /\ pc = "exited"

\* an entry of the source tree, regular file or directory, has the name of
\* the FLAC file p with the codec in place of the extension and is beside it
SiblingEntry(p) ==
    /\ Len(p.name) > 1
    /\ Lower(p.name[Len(p.name)]) = "flac"
    /\ \E q \in SourceFiles :
          \/ q.dir = p.dir /\ q.name = [p.name EXCEPT ![Len(p.name)] = codec]
          \/ /\ Len(q.dir) > Len(p.dir)
             /\ SubSeq(q.dir, 1, Len(p.dir) + 1) =
                    p.dir \o << Join([p.name EXCEPT ![Len(p.name)] = codec]) >>

\* C26: in a run on a source tree that holds an X.flac that no exclusion
\* pattern matches and beside it an entry named X.<codec>, be it a file
\* that a pattern matches, a file that none matches or a directory, the
\* enumeration fails and nothing is done.
C26_DuplicateOnDisk ==
    ((\E p \in Unmatched : SiblingEntry(p)) /\ pc # "start") => NothingDone

\* such a process has ended where the sibling is a file that an exclusion
\* pattern matches, so that it is not enumerated
C26_Witness ==
    /\ pc = "exited"
    /\ \E p \in Unmatched :
          /\ SiblingEntry(p)
          /\ Matched(P(p.dir, [p.name EXCEPT ![Len(p.name)] = codec]))

====
